---- MODULE Spec2Model ----
(***************************************************************************)
(* Workflow generation service: the Validator and the response cleaner of  *)
(* WorkflowGenerator, the Workflow record and its status, and the          *)
(* create-workflow and regenerate-with-feedback request handlers of the    *)
(* two deployed variants (app and api).                                    *)
(*                                                                         *)
(* A source text is a sequence of lexical fragments.  Every substring the  *)
(* code searches for is one fragment or two adjacent fragments:            *)
(*   "fence"   ```                                                         *)
(*   "py"      python            ("fence","py" is ```python)                *)
(*   "ws"      a newline                                                   *)
(*   "async"   async<space>                                                *)
(*   "def1"    def execute_workflow(user_input: str) -> str: <body>        *)
(*   "def0"    def execute_workflow(): <body>                              *)
(*   "asyncio" import asyncio                                              *)
(*   "aiohttp" import aiohttp                                              *)
(*   "bad"     a fragment that is not Python                               *)
(*   "sur"     a lone surrogate character (not encodable as UTF-8)         *)
(*   "stmt"    any other complete statement                                *)
(*                                                                         *)
(* Scheduling: the handlers are coroutines on one event loop, and neither  *)
(* generate_workflow nor regenerate_with_feedback contains a point where   *)
(* the loop can switch (messages.create is a synchronous call, and the     *)
(* awaited _generate_code and _validate_code never suspend), so one        *)
(* handler runs from start to end before the next starts.  req is the      *)
(* frame of the handler that is running; its pc advances one statement     *)
(* group at a time.                                                        *)
(*                                                                         *)
(* The api package's Workflow class and both packages' executor are not    *)
(* part of the sources read here: the api variant uses the Workflow of     *)
(* app/workflow/models.py, and the executor's registry is the keyed store  *)
(* described for the Workflow Store.  The executor itself follows its      *)
(* design contract: look up, create the record, run the code in a fresh    *)
(* isolate against the deadline, mark the record, store it.  The record it *)
(* marks is the WorkflowExecution of app/workflow/models.py.  An           *)
(* invocation of generated code suspends its handler, so executions run    *)
(* concurrently with one another and with later requests; they resume      *)
(* only when the event loop is free.                                       *)
(***************************************************************************)
EXTENDS Integers, Sequences, FiniteSets, TLC

\* ------------------------------------------------------------------ bounds
MaxLen == 4
MaxWorkflows == 2
MaxRequests == 3
MaxExecutions == 2
MaxMarks == 3

\* ------------------------------------------------------------------- texts
Tokens == {"fence", "py", "ws", "async", "def1", "def0", "asyncio", "aiohttp", "bad", "sur", "stmt"}

DefTokens == {"def1", "def0"}

Texts == UNION {[1..n -> Tokens] : n \in 0..MaxLen}

\* Python's None, distinct from every text and every message
None == <<"<None>">>

\* the separators of _clean_generated_code
FencePython == <<"fence", "py">>
Fence == <<"fence">>

\* pat in code
Contains(code, pat) ==
  \E i \in 0..(Len(code) - Len(pat)) : SubSeq(code, i + 1, i + Len(pat)) = pat

\* index of the first occurrence of pat in code, 0 when there is none
Find(code, pat) ==
  IF Contains(code, pat)
  THEN CHOOSE i \in 1..Len(code) :
         /\ i + Len(pat) - 1 <= Len(code)
         /\ SubSeq(code, i, i + Len(pat) - 1) = pat
         /\ \A j \in 1..(i - 1) : SubSeq(code, j, j + Len(pat) - 1) # pat
  ELSE 0

\* code.split(sep)[0]
SplitHead(code, sep) ==
  IF Find(code, sep) = 0 THEN code ELSE SubSeq(code, 1, Find(code, sep) - 1)

\* the text after the first occurrence of sep (sep is known to occur)
SplitRest(code, sep) ==
  SubSeq(code, Find(code, sep) + Len(sep), Len(code))

\* code.split(sep)[1], for a code that contains sep
SplitSecond(code, sep) == SplitHead(SplitRest(code, sep), sep)

RECURSIVE LStrip(_)
LStrip(code) ==
  IF code # <<>> /\ Head(code) = "ws" THEN LStrip(Tail(code)) ELSE code

RECURSIVE RStrip(_)
RStrip(code) ==
  IF code # <<>> /\ code[Len(code)] = "ws"
  THEN RStrip(SubSeq(code, 1, Len(code) - 1))
  ELSE code

\* a strip of the left end only
Strip_LeftOnly(code) == LStrip(code)

\* code.strip()
Strip(code) == RStrip(LStrip(code))

\* 'def execute_workflow(' in code
HasEntryPoint(code) == \E i \in 1..Len(code) : code[i] \in DefTokens

\* 'async def execute_workflow(' in code
HasAsyncEntryPoint(code) ==
  \E i \in 1..(Len(code) - 1) : code[i] = "async" /\ code[i + 1] \in DefTokens

\* code.replace("def execute_workflow(", "async def execute_workflow(")
RECURSIVE MakeAsync(_)
MakeAsync(code) ==
  IF code = <<>> THEN <<>>
  ELSE IF Head(code) \in DefTokens
       THEN <<"async", Head(code)>> \o MakeAsync(Tail(code))
       ELSE <<Head(code)>> \o MakeAsync(Tail(code))

\* cleaning that leaves the entry point as the model wrote it
CleanGeneratedCode_KeepsSync(code) ==
  LET unfenced == IF Contains(code, FencePython)
                  THEN SplitHead(SplitSecond(code, FencePython), Fence)
                  ELSE IF Contains(code, Fence)
                       THEN SplitHead(SplitSecond(code, Fence), Fence)
                       ELSE code
  IN Strip(unfenced)

\* _clean_generated_code
CleanGeneratedCode(code) ==
  LET unfenced == IF Contains(code, FencePython)
                  THEN SplitHead(SplitSecond(code, FencePython), Fence)
                  ELSE IF Contains(code, Fence)
                       THEN SplitHead(SplitSecond(code, Fence), Fence)
                       ELSE code
      stripped == Strip(unfenced)
  IN IF HasEntryPoint(stripped) /\ ~HasAsyncEntryPoint(stripped)
     THEN MakeAsync(stripped)
     ELSE stripped

\* compile(code, '<string>', 'exec'): "ok", or the exception it raises
Compile(code) ==
  IF \E i \in 1..Len(code) : code[i] = "sur" THEN "UnicodeEncodeError"
  ELSE IF \E i \in 1..Len(code) :
            \/ code[i] \in {"bad", "fence"}
            \/ code[i] = "async" /\ (i = Len(code) \/ code[i + 1] \notin DefTokens)
       THEN "SyntaxError"
       ELSE "ok"

\* the reasons of _validate_code
ErrSyntax == <<"Syntax error: invalid syntax">>
ErrValidation == <<"Validation error: 'utf-8' codec can't encode character: surrogates not allowed">>
ErrMissingFunction == <<"Missing execute_workflow function">>
ErrNotAsync == <<"execute_workflow must be async">>
ErrMissingAsyncio == <<"Missing required import: import asyncio">>
ErrMissingAiohttp == <<"Missing required import: import aiohttp">>

\* the import checks made before the entry-point checks
ValidateCode_ImportsFirst(code) ==
  IF Compile(code) = "SyntaxError" THEN [valid |-> FALSE, error |-> ErrSyntax]
  ELSE IF Compile(code) # "ok" THEN [valid |-> FALSE, error |-> ErrValidation]
  ELSE IF ~Contains(code, <<"asyncio">>) THEN [valid |-> FALSE, error |-> ErrMissingAsyncio]
  ELSE IF ~Contains(code, <<"aiohttp">>) THEN [valid |-> FALSE, error |-> ErrMissingAiohttp]
  ELSE IF ~HasEntryPoint(code) THEN [valid |-> FALSE, error |-> ErrMissingFunction]
  ELSE IF ~HasAsyncEntryPoint(code) THEN [valid |-> FALSE, error |-> ErrNotAsync]
  ELSE [valid |-> TRUE, error |-> None]

\* _validate_code without its last except clause: an exception of compile
\* that is no SyntaxError leaves the caller without a reason
ValidateCode_CatchesSyntaxOnly(code) ==
  IF Compile(code) = "SyntaxError" THEN [valid |-> FALSE, error |-> ErrSyntax]
  ELSE IF Compile(code) # "ok" THEN [valid |-> FALSE, error |-> None]
  ELSE IF ~HasEntryPoint(code) THEN [valid |-> FALSE, error |-> ErrMissingFunction]
  ELSE IF ~HasAsyncEntryPoint(code) THEN [valid |-> FALSE, error |-> ErrNotAsync]
  ELSE IF ~Contains(code, <<"asyncio">>) THEN [valid |-> FALSE, error |-> ErrMissingAsyncio]
  ELSE IF ~Contains(code, <<"aiohttp">>) THEN [valid |-> FALSE, error |-> ErrMissingAiohttp]
  ELSE [valid |-> TRUE, error |-> None]

\* _validate_code
ValidateCode(code) ==
  IF Compile(code) = "SyntaxError" THEN [valid |-> FALSE, error |-> ErrSyntax]
  ELSE IF Compile(code) # "ok" THEN [valid |-> FALSE, error |-> ErrValidation]
  ELSE IF ~HasEntryPoint(code) THEN [valid |-> FALSE, error |-> ErrMissingFunction]
  ELSE IF ~HasAsyncEntryPoint(code) THEN [valid |-> FALSE, error |-> ErrNotAsync]
  ELSE IF ~Contains(code, <<"asyncio">>) THEN [valid |-> FALSE, error |-> ErrMissingAsyncio]
  ELSE IF ~Contains(code, <<"aiohttp">>) THEN [valid |-> FALSE, error |-> ErrMissingAiohttp]
  ELSE [valid |-> TRUE, error |-> None]

\* --------------------------------------------------------------- messages
\* A message is a sequence of parts; <<>> is the empty string.  f"{a}{b}" is \o.
MsgGenerationFailed == <<"Code generation failed: ">>
MsgGeneratedInvalid == <<"Generated code validation failed: ">>
MsgImprovedInvalid == <<"Improved code validation failed: ">>
MsgCreateFailed == <<"Failed to create workflow: ">>
MsgCreateFilesFailed == <<"Failed to create workflow with files: ">>
MsgRegenerateFailed == <<"Failed to regenerate workflow: ">>
MsgNotFound == <<"Workflow not found">>
MsgNoApiKey == <<"Anthropic API key not configured. Please set ANTHROPIC_API_KEY environment variable.">>
MsgNoAttribute == <<"'WorkflowGenerator' object has no attribute 'regenerate_with_feedback'">>

\* ------------------------------------------------- the generation service
\* What anthropic_client.messages.create(...) and response.content[0].text
\* give for one request: a response text, or an exception with its str().
RespPlain == <<"asyncio", "aiohttp", "async", "def1">>
RespFenced == <<"stmt", "fence", "py", "ws", "asyncio", "aiohttp", "stmt", "def1", "ws", "fence", "stmt">>
RespNoImport == <<"aiohttp", "async", "def1">>
RespSyntax == <<"asyncio", "aiohttp", "async", "def1", "bad">>
RespNoEntry == <<"asyncio", "aiohttp", "stmt">>
RespNoArg == <<"asyncio", "aiohttp", "def0">>

ServiceResponses == {RespPlain, RespFenced, RespNoImport, RespSyntax, RespNoEntry, RespNoArg}

ServiceErrors == {<<"Connection error.">>, <<>>}

ServiceOutcomes ==
  {[ok |-> TRUE, text |-> r, msg |-> None] : r \in ServiceResponses}
    \cup {[ok |-> FALSE, text |-> None, msg |-> m] : m \in ServiceErrors}

\* ---------------------------------------------------------------- requests
\* WorkflowCreateRequest / WorkflowWithFilesRequest
CreateInputs ==
  { [endpoint |-> "workflows", description |-> "d1", name |-> None,
     context |-> None, uploaded_file_ids |-> None],
    [endpoint |-> "workflows-with-files", description |-> "d2", name |-> <<"n1">>,
     context |-> None, uploaded_file_ids |-> <<"7">>] }

\* context = request.context or {}; the file ids are added when there are any
ContextOf(in) ==
  IF in.endpoint = "workflows" THEN in.context
  ELSE IF in.uploaded_file_ids # None /\ in.uploaded_file_ids # <<>>
       THEN <<"uploaded_file_ids", in.uploaded_file_ids, "use_uploaded_files">>
       ELSE IF in.context = None THEN <<>> ELSE in.context

Variants == {"app", "api"}

VARIABLES
  variant,      \* which of the two deployments this process runs
  apiKey,       \* settings.anthropic_api_key is non-empty
  debug,        \* settings.debug
  workflows,    \* every Workflow object constructed so far, by id
  store,        \* ids held by the executor's workflow registry
  now,          \* what datetime.utcnow() returns next
  req,          \* frame of the request handler the event loop is running
  nreq,         \* requests accepted so far
  resp,         \* the last HTTP response sent
  executions,   \* every WorkflowExecution object constructed so far, by id
  execStore,    \* ids held by the executor's execution registry
  isolates,     \* the execution contexts generated code runs in
  text,         \* input of the text functions
  tres          \* their result

vars == <<variant, apiKey, debug, workflows, store, now, req, nreq, resp, executions, execStore, isolates, text, tres>>

mvars == <<variant, apiKey, debug, workflows, store, now, req, nreq, resp>>

tvars == <<text, tres>>

xvars == <<executions, execStore, isolates>>

\* ---------------------------------------------------------------- Workflow
NewWorkflow(id, name, description, context, t) ==
  [id |-> id, name |-> name, description |-> description, generated_code |-> None,
   status |-> "created", created_at |-> t, updated_at |-> t,
   error |-> None, context |-> context]

\* update_status that never records the error
UpdateStatus_DropsError(w, status, error, t) ==
  [w EXCEPT !.status = status, !.updated_at = t]

\* update_status that stamps both times
UpdateStatus_StampsCreated(w, status, error, t) ==
  [w EXCEPT !.status = status,
            !.updated_at = t,
            !.created_at = t,
            !.error = IF error # None /\ error # <<>> THEN error ELSE @]

\* Workflow.update_status at time t; "if error:" is false for None and for ""
UpdateStatus(w, status, error, t) ==
  [w EXCEPT !.status = status,
            !.updated_at = t,
            !.error = IF error # None /\ error # <<>> THEN error ELSE @]

\* workflow_executor.store_workflow / get_workflow
StoreWorkflow(s, id) == s \cup {id}

GetWorkflow(s, id) == IF id \in s THEN id ELSE 0

\* ------------------------------------------------------- WorkflowExecution
\* None in a numeric or time field
NoTime == -1

\* settings.max_execution_time
MaxExecutionTime == 300

Terminal == {"completed", "failed", "timeout"}

NewExecution(id, workflow_id, user_input, t) ==
  [id |-> id, workflow_id |-> workflow_id, user_input |-> user_input, result |-> None,
   status |-> "pending", execution_time |-> NoTime, error |-> None,
   created_at |-> t, completed_at |-> NoTime]

\* WorkflowExecution.mark_completed at time t
MarkCompleted(e, result, execution_time, t) ==
  [e EXCEPT !.result = result,
            !.status = "completed",
            !.execution_time = execution_time,
            !.completed_at = t]

MarkFailed_ForgetsTime(e, error, execution_time, t) ==
  [e EXCEPT !.error = error,
            !.status = "failed",
            !.completed_at = t]

\* WorkflowExecution.mark_failed at time t
MarkFailed(e, error, execution_time, t) ==
  [e EXCEPT !.error = error,
            !.status = "failed",
            !.execution_time = execution_time,
            !.completed_at = t]

\* ---------------------------------------------------------------- executor
MsgUnknownWorkflow == <<"Workflow not found">>
MsgNotExecutable == <<"Workflow is not ready for execution">>
MsgTimeout == <<"Execution timeout">>
MsgRaised == <<"error raised by the generated code">>
MsgTypeError == <<"execute_workflow() takes 0 positional arguments but 1 was given">>
MsgWorkflowNotFound == <<"Workflow {workflow_id} not found">>
MsgExecutionNotFound == <<"Execution {execution_id} not found">>
MsgNotOwner == <<"Execution {execution_id} does not belong to workflow {workflow_id}">>

\* WorkflowExecuteRequest
ExecInputs ==
  { [user_input |-> "u1", attached_file_ids |-> None],
    [user_input |-> "u2", attached_file_ids |-> <<"7">>] }

\* what a run of generated code does: returns or raises after so many
\* seconds, or never comes back
Behaviours ==
  { [kind |-> "return", after |-> 0],
    [kind |-> "raise", after |-> 0],
    [kind |-> "return", after |-> MaxExecutionTime + 1],
    [kind |-> "hang", after |-> 0] }

NoBehaviour == [kind |-> "none", after |-> 0]

\* an execution context nothing runs in: the loaded code, the input binding
\* attached_file_ids, a global variable g of the code, and what the run does
NoIsolate ==
  [code |-> None, attached_file_ids |-> None, g |-> None, behaviour |-> NoBehaviour]

IsolateOf_Shared(eid) == 1

\* one isolate per invocation
IsolateOf(eid) == eid

\* the entry point that is in force, the last one defined, takes the input
RECURSIVE TakesInput(_)
TakesInput(code) ==
  IF code = <<>> THEN FALSE
  ELSE IF code[Len(code)] \in DefTokens THEN code[Len(code)] = "def1"
       ELSE TakesInput(SubSeq(code, 1, Len(code) - 1))

\* invoking execute_workflow(user_input) on an entry point without parameter
\* raises at once
RunBehaviour(code, beh) ==
  IF TakesInput(code) THEN beh ELSE [kind |-> "raise", after |-> 0]

RaisedMessage(code) == IF TakesInput(code) THEN MsgRaised ELSE MsgTypeError

\* the text the generated code returns, computed from its argument or from
\* the global it kept it in, and from the binding attached_file_ids
ResultOf(user_input, iso) ==
  <<"result for">> \o (IF iso.g = None THEN <<user_input>> ELSE iso.g)
                   \o iso.attached_file_ids

\* pending -> running
MarkRunning(e) == [e EXCEPT !.status = "running"]

\* deadline exceeded: timeout, the fixed message, the deadline as execution_time
MarkTimeout(e, t) ==
  [MarkFailed(e, MsgTimeout, MaxExecutionTime, t) EXCEPT !.status = "timeout"]

\* workflow_executor.get_execution
GetExecution(s, id) == IF id \in s THEN id ELSE 0

NoRequest == [endpoint |-> "none", workflow_id |-> 0, execution_id |-> 0]

\* None where a request body, a service outcome or a response body is expected
NoInput == [endpoint |-> "none"]
NoOutcome == [ok |-> FALSE, text |-> None, msg |-> None]
NoBody == [id |-> 0]

Idle ==
  [kind |-> "idle", pc |-> "idle", wid |-> 0, in |-> NoInput, svc |-> NoOutcome,
   code |-> None, exc |-> None, calls |-> 0]

NoResponse == [status |-> 0, detail |-> None, body |-> NoBody, request |-> NoRequest]

Init ==
  /\ variant \in Variants
  /\ apiKey \in (IF variant = "app" THEN {TRUE} ELSE BOOLEAN)
  /\ debug \in BOOLEAN
  /\ workflows = <<>>
  /\ store = {}
  /\ now = 0
  /\ req = Idle
  /\ nreq = 0
  /\ resp = NoResponse
  /\ executions = <<>>
  /\ execStore = {}
  /\ isolates = [i \in 1..MaxExecutions |-> NoIsolate]
  /\ text = <<>>
  /\ tres = [op |-> "none"]

\* the Workflow object the running handler works on
ReqWorkflow == workflows[req.wid]

Respond(status, detail, body) ==
  [status |-> status, detail |-> detail, body |-> body, request |-> NoRequest]

\* a response that names the request it answers
RespondTo(request, status, detail, body) ==
  [status |-> status, detail |-> detail, body |-> body, request |-> request]

\* ------------------------------------------- POST /workflows[-with-files]
\* api only: validate_anthropic_api_key() raises 503 before anything is built
CreateNoApiKey ==
  /\ req.kind = "idle"
  /\ nreq < MaxRequests
  /\ variant = "api"
  /\ ~apiKey
  /\ nreq' = nreq + 1
  /\ resp' = Respond(503, MsgNoApiKey, NoBody)
  /\ UNCHANGED <<variant, apiKey, debug, workflows, store, now, req, tvars, xvars>>

\* the handler calls generate_workflow, which constructs the Workflow
StartCreate ==
  /\ req.kind = "idle"
  /\ nreq < MaxRequests
  /\ Len(workflows) < MaxWorkflows
  /\ variant = "api" => apiKey
  /\ \E in \in CreateInputs, svc \in ServiceOutcomes :
       /\ workflows' = Append(workflows,
             NewWorkflow(Len(workflows) + 1, in.name, in.description, ContextOf(in), now))
       /\ req' = [kind |-> "create", pc |-> "constructed", wid |-> Len(workflows) + 1,
                  in |-> in, svc |-> svc, code |-> None, exc |-> None, calls |-> 0]
  /\ nreq' = nreq + 1
  /\ now' = now + 1
  /\ UNCHANGED <<variant, apiKey, debug, store, resp, tvars, xvars>>

\* workflow.update_status("generating")
GenBegin ==
  /\ req.kind = "create"
  /\ req.pc = "constructed"
  /\ workflows' = [workflows EXCEPT ![req.wid] = UpdateStatus(@, "generating", None, now)]
  /\ now' = now + 1
  /\ req' = [req EXCEPT !.pc = "generating"]
  /\ UNCHANGED <<variant, apiKey, debug, store, nreq, resp, tvars, xvars>>

\* _generate_code that writes its result into the workflow at once
GenerateCode_StoresEarly ==
  /\ req.kind = "create"
  /\ req.pc = "generating"
  /\ req' = IF req.svc.ok
            THEN [req EXCEPT !.pc = "validating",
                             !.code = CleanGeneratedCode(req.svc.text),
                             !.calls = @ + 1]
            ELSE [req EXCEPT !.pc = "except",
                             !.exc = MsgGenerationFailed \o req.svc.msg,
                             !.calls = @ + 1]
  /\ workflows' = IF req.svc.ok
                  THEN [workflows EXCEPT ![req.wid].generated_code = CleanGeneratedCode(req.svc.text)]
                  ELSE workflows
  /\ UNCHANGED <<variant, apiKey, debug, store, now, nreq, resp, tvars, xvars>>

\* _generate_code: one messages.create, then _clean_generated_code; every
\* exception is re-raised as "Code generation failed: ..."
GenerateCode ==
  /\ req.kind = "create"
  /\ req.pc = "generating"
  /\ req' = IF req.svc.ok
            THEN [req EXCEPT !.pc = "validating",
                             !.code = CleanGeneratedCode(req.svc.text),
                             !.calls = @ + 1]
            ELSE [req EXCEPT !.pc = "except",
                             !.exc = MsgGenerationFailed \o req.svc.msg,
                             !.calls = @ + 1]
  /\ UNCHANGED <<variant, apiKey, debug, workflows, store, now, nreq, resp, tvars, xvars>>

\* generate_workflow that raises the same message for every rejection
GenValidate_DropsReason ==
  /\ req.kind = "create"
  /\ req.pc = "validating"
  /\ IF ValidateCode(req.code).valid
     THEN /\ workflows' = [workflows EXCEPT ![req.wid] =
                 UpdateStatus([@ EXCEPT !.generated_code = req.code], "ready", None, now)]
          /\ now' = now + 1
          /\ req' = [req EXCEPT !.pc = "returned"]
     ELSE /\ req' = [req EXCEPT !.pc = "except", !.exc = MsgGeneratedInvalid]
          /\ UNCHANGED <<workflows, now>>
  /\ UNCHANGED <<variant, apiKey, debug, store, nreq, resp, tvars, xvars>>

\* _validate_code, then workflow.generated_code = ...; update_status("ready")
GenValidate ==
  /\ req.kind = "create"
  /\ req.pc = "validating"
  /\ IF ValidateCode(req.code).valid
     THEN /\ workflows' = [workflows EXCEPT ![req.wid] =
                 UpdateStatus([@ EXCEPT !.generated_code = req.code], "ready", None, now)]
          /\ now' = now + 1
          /\ req' = [req EXCEPT !.pc = "returned"]
     ELSE /\ req' = [req EXCEPT !.pc = "except",
                                !.exc = MsgGeneratedInvalid \o ValidateCode(req.code).error]
          /\ UNCHANGED <<workflows, now>>
  /\ UNCHANGED <<variant, apiKey, debug, store, nreq, resp, tvars, xvars>>

\* an except clause that only re-raises
GenExcept_OnlyRaises ==
  /\ req.kind = "create"
  /\ req.pc = "except"
  /\ req' = [req EXCEPT !.pc = "raised"]
  /\ UNCHANGED <<variant, apiKey, debug, workflows, store, now, nreq, resp, tvars, xvars>>

\* except Exception as e: workflow.update_status("failed", str(e)); raise e
GenExcept ==
  /\ req.kind = "create"
  /\ req.pc = "except"
  /\ workflows' = [workflows EXCEPT ![req.wid] = UpdateStatus(@, "failed", req.exc, now)]
  /\ now' = now + 1
  /\ req' = [req EXCEPT !.pc = "raised"]
  /\ UNCHANGED <<variant, apiKey, debug, store, nreq, resp, tvars, xvars>>

\* generate_workflow returned: store_workflow, respond with the snapshot
CreateStore ==
  /\ req.kind = "create"
  /\ req.pc = "returned"
  /\ store' = StoreWorkflow(store, req.wid)
  /\ resp' = Respond(200, None, ReqWorkflow)
  /\ req' = Idle
  /\ UNCHANGED <<variant, apiKey, debug, workflows, now, nreq, tvars, xvars>>

\* a handler that stores the workflow also when generate_workflow raised
CreateFail_StoresAnyway ==
  /\ req.kind = "create"
  /\ req.pc = "raised"
  /\ store' = StoreWorkflow(store, req.wid)
  /\ resp' = Respond(500,
                (IF req.in.endpoint = "workflows" THEN MsgCreateFailed ELSE MsgCreateFilesFailed)
                  \o req.exc,
                NoBody)
  /\ req' = Idle
  /\ UNCHANGED <<variant, apiKey, debug, workflows, now, nreq, tvars, xvars>>

\* generate_workflow raised: HTTP 500, nothing is stored
CreateFail ==
  /\ req.kind = "create"
  /\ req.pc = "raised"
  /\ resp' = Respond(500,
                (IF req.in.endpoint = "workflows" THEN MsgCreateFailed ELSE MsgCreateFilesFailed)
                  \o req.exc,
                NoBody)
  /\ req' = Idle
  /\ UNCHANGED <<variant, apiKey, debug, workflows, store, now, nreq, tvars, xvars>>

\* ------------------------- POST /workflows/{id}/regenerate-with-feedback
\* api only: validate_anthropic_api_key() raises 503
RegenNoApiKey ==
  /\ req.kind = "idle"
  /\ nreq < MaxRequests
  /\ variant = "api"
  /\ ~apiKey
  /\ nreq' = nreq + 1
  /\ resp' = Respond(503, MsgNoApiKey, NoBody)
  /\ UNCHANGED <<variant, apiKey, debug, workflows, store, now, req, tvars, xvars>>

\* get_workflow found nothing: 404
RegenNotFound ==
  /\ req.kind = "idle"
  /\ nreq < MaxRequests
  /\ variant = "api" => apiKey
  /\ \E id \in 1..MaxWorkflows : GetWorkflow(store, id) = 0
  /\ nreq' = nreq + 1
  /\ resp' = Respond(404, MsgNotFound, NoBody)
  /\ UNCHANGED <<variant, apiKey, debug, workflows, store, now, req, tvars, xvars>>

\* get_workflow found the workflow: the handler enters its try block
StartRegen ==
  /\ req.kind = "idle"
  /\ nreq < MaxRequests
  /\ variant = "api" => apiKey
  /\ \E id \in 1..MaxWorkflows, svc \in ServiceOutcomes :
       /\ GetWorkflow(store, id) # 0
       /\ req' = [kind |-> "regen", pc |-> "regen_call", wid |-> GetWorkflow(store, id),
                  in |-> req.in, svc |-> svc, code |-> None, exc |-> None, calls |-> 0]
  /\ nreq' = nreq + 1
  /\ UNCHANGED <<variant, apiKey, debug, workflows, store, now, resp, tvars, xvars>>

\* api: WorkflowGenerator has no regenerate_with_feedback; the attribute
\* lookup raises AttributeError inside the handler's try block
RegenMissingMethod ==
  /\ req.kind = "regen"
  /\ req.pc = "regen_call"
  /\ variant = "api"
  /\ req' = [req EXCEPT !.pc = "regen_except", !.exc = MsgNoAttribute]
  /\ UNCHANGED <<variant, apiKey, debug, workflows, store, now, nreq, resp, tvars, xvars>>

\* regenerate_with_feedback that asks the service again after a failure
RegenCallService_Retries ==
  /\ req.kind = "regen"
  /\ req.pc = "regen_call"
  /\ variant = "app"
  /\ req' = IF req.svc.ok
            THEN [req EXCEPT !.pc = "regen_validating",
                             !.code = CleanGeneratedCode(req.svc.text),
                             !.calls = @ + 1]
            ELSE IF req.calls = 0
                 THEN [req EXCEPT !.calls = @ + 1]
                 ELSE [req EXCEPT !.pc = "regen_except",
                                  !.exc = req.svc.msg,
                                  !.calls = @ + 1]
  /\ UNCHANGED <<variant, apiKey, debug, workflows, store, now, nreq, resp, tvars, xvars>>

\* app, regenerate_with_feedback: one messages.create (not wrapped in a try),
\* then _clean_generated_code
RegenCallService ==
  /\ req.kind = "regen"
  /\ req.pc = "regen_call"
  /\ variant = "app"
  /\ req' = IF req.svc.ok
            THEN [req EXCEPT !.pc = "regen_validating",
                             !.code = CleanGeneratedCode(req.svc.text),
                             !.calls = @ + 1]
            ELSE [req EXCEPT !.pc = "regen_except",
                             !.exc = req.svc.msg,
                             !.calls = @ + 1]
  /\ UNCHANGED <<variant, apiKey, debug, workflows, store, now, nreq, resp, tvars, xvars>>

\* regenerate_with_feedback that returns the code without validating it
RegenValidate_NoCheck ==
  /\ req.kind = "regen"
  /\ req.pc = "regen_validating"
  /\ req' = [req EXCEPT !.pc = "regen_returned"]
  /\ UNCHANGED <<variant, apiKey, debug, workflows, store, now, nreq, resp, tvars, xvars>>

\* regenerate_with_feedback that writes the validated code into the workflow
RegenValidate_Applies ==
  /\ req.kind = "regen"
  /\ req.pc = "regen_validating"
  /\ req' = IF ValidateCode(req.code).valid
            THEN [req EXCEPT !.pc = "regen_returned"]
            ELSE [req EXCEPT !.pc = "regen_except",
                             !.exc = MsgImprovedInvalid \o ValidateCode(req.code).error]
  /\ workflows' = IF ValidateCode(req.code).valid
                  THEN [workflows EXCEPT ![req.wid].generated_code = req.code]
                  ELSE workflows
  /\ UNCHANGED <<variant, apiKey, debug, store, now, nreq, resp, tvars, xvars>>

\* regenerate_with_feedback: _validate_code, return the code or raise
RegenValidate ==
  /\ req.kind = "regen"
  /\ req.pc = "regen_validating"
  /\ req' = IF ValidateCode(req.code).valid
            THEN [req EXCEPT !.pc = "regen_returned"]
            ELSE [req EXCEPT !.pc = "regen_except",
                             !.exc = MsgImprovedInvalid \o ValidateCode(req.code).error]
  /\ UNCHANGED <<variant, apiKey, debug, workflows, store, now, nreq, resp, tvars, xvars>>

RegenApply_CodeThenYield ==
  /\ req.kind = "regen"
  /\ req.pc = "regen_returned"
  /\ workflows' = [workflows EXCEPT ![req.wid].generated_code = req.code]
  /\ now' = now + 1
  /\ resp' = Respond(200, None, workflows'[req.wid])
  /\ req' = Idle
  /\ UNCHANGED <<variant, apiKey, debug, store, nreq, tvars, xvars>>

\* the handler applies the code: generated_code = improved_code; update_status("ready")
RegenApply ==
  /\ req.kind = "regen"
  /\ req.pc = "regen_returned"
  /\ workflows' = [workflows EXCEPT ![req.wid] =
         UpdateStatus([@ EXCEPT !.generated_code = req.code], "ready", None, now)]
  /\ now' = now + 1
  /\ resp' = Respond(200, None, workflows'[req.wid])
  /\ req' = Idle
  /\ UNCHANGED <<variant, apiKey, debug, store, nreq, tvars, xvars>>

\* the handler's except: update_status("failed", str(e)); HTTP 500
RegenExcept ==
  /\ req.kind = "regen"
  /\ req.pc = "regen_except"
  /\ workflows' = [workflows EXCEPT ![req.wid] = UpdateStatus(@, "failed", req.exc, now)]
  /\ now' = now + 1
  /\ resp' = Respond(500, MsgRegenerateFailed \o req.exc, NoBody)
  /\ req' = Idle
  /\ UNCHANGED <<variant, apiKey, debug, store, nreq, tvars, xvars>>

\* ----------------------------------------- POST /workflows/{id}/execute
CanExecute_IgnoresStatus(id) ==
  /\ GetWorkflow(store, id) # 0
  /\ workflows[id].generated_code # None

\* the workflow is stored, has code and is ready
CanExecute(id) ==
  /\ GetWorkflow(store, id) # 0
  /\ workflows[id].generated_code # None
  /\ workflows[id].status = "ready"

\* the executor raises ValueError before creating anything: HTTP 400
ExecuteRejected ==
  /\ req.kind = "idle"
  /\ nreq < MaxRequests
  /\ \E id \in 1..MaxWorkflows :
       /\ ~CanExecute(id)
       /\ resp' = RespondTo([endpoint |-> "execute", workflow_id |-> id, execution_id |-> 0],
                            400,
                            IF GetWorkflow(store, id) = 0 THEN MsgUnknownWorkflow
                                                         ELSE MsgNotExecutable,
                            NoBody)
  /\ nreq' = nreq + 1
  /\ UNCHANGED <<variant, apiKey, debug, workflows, store, now, req, tvars, xvars>>

\* the executor creates the WorkflowExecution, pending
ExecuteStart ==
  /\ req.kind = "idle"
  /\ nreq < MaxRequests
  /\ Len(executions) < MaxExecutions
  /\ \E id \in 1..MaxWorkflows, in \in ExecInputs :
       /\ CanExecute(id)
       /\ executions' = Append(executions,
             NewExecution(Len(executions) + 1, id, in.user_input, now))
       /\ req' = [Idle EXCEPT !.kind = "execute", !.pc = "exec_pending", !.wid = id, !.in = in]
  /\ nreq' = nreq + 1
  /\ now' = now + 1
  /\ UNCHANGED <<variant, apiKey, debug, workflows, store, resp, execStore, isolates, tvars>>

\* running: the code is loaded into the invocation's isolate, the inputs are
\* bound and the entry point is invoked; the handler is suspended
ExecuteRun ==
  /\ req.kind = "execute"
  /\ req.pc = "exec_pending"
  /\ \E beh \in Behaviours :
       LET eid == Len(executions)
           code == workflows[req.wid].generated_code
       IN /\ executions' = [executions EXCEPT ![eid] = MarkRunning(@)]
          /\ isolates' = [isolates EXCEPT ![IsolateOf(eid)] =
                [code |-> code, attached_file_ids |-> req.in.attached_file_ids,
                 g |-> None, behaviour |-> RunBehaviour(code, beh)]]
  /\ req' = Idle
  /\ UNCHANGED <<variant, apiKey, debug, workflows, store, now, nreq, resp, execStore, tvars>>

\* execution i is suspended in its invocation and the event loop is free
Running(i) ==
  /\ req.kind = "idle"
  /\ i \in 1..Len(executions)
  /\ executions[i].status = "running"

ExecuteRequest(i) ==
  [endpoint |-> "execute", workflow_id |-> executions[i].workflow_id, execution_id |-> i]

\* the running code assigns its argument to a global variable of its isolate
ExecMutate(i) ==
  /\ Running(i)
  /\ isolates[IsolateOf(i)].code # None
  /\ isolates[IsolateOf(i)].g # <<executions[i].user_input>>
  /\ isolates' = [isolates EXCEPT ![IsolateOf(i)].g = <<executions[i].user_input>>]
  /\ UNCHANGED <<mvars, tvars, executions, execStore>>

\* the record is marked, the isolate discarded, the record stored and returned
Finish(i, e) ==
  /\ executions' = [executions EXCEPT ![i] = e]
  /\ isolates' = [isolates EXCEPT ![IsolateOf(i)] = NoIsolate]
  /\ execStore' = execStore \cup {i}
  /\ resp' = RespondTo(ExecuteRequest(i), 200, None, e)
  /\ now' = now + 1
  /\ UNCHANGED <<variant, apiKey, debug, workflows, store, req, nreq, tvars>>

\* the entry point returned within the deadline
ExecComplete(i) ==
  /\ Running(i)
  /\ isolates[IsolateOf(i)].behaviour.kind = "return"
  /\ isolates[IsolateOf(i)].behaviour.after <= MaxExecutionTime
  /\ Finish(i, MarkCompleted(executions[i],
                             ResultOf(executions[i].user_input, isolates[IsolateOf(i)]),
                             isolates[IsolateOf(i)].behaviour.after, now))

\* the entry point raised within the deadline
ExecFail(i) ==
  /\ Running(i)
  /\ isolates[IsolateOf(i)].behaviour.kind = "raise"
  /\ isolates[IsolateOf(i)].behaviour.after <= MaxExecutionTime
  /\ Finish(i, MarkFailed(executions[i], RaisedMessage(isolates[IsolateOf(i)].code),
                          isolates[IsolateOf(i)].behaviour.after, now))

ExecTimeout_WaitsForCode(i) ==
  /\ Running(i)
  /\ isolates[IsolateOf(i)].behaviour.kind \in {"return", "raise"}
  /\ isolates[IsolateOf(i)].behaviour.after > MaxExecutionTime
  /\ Finish(i, MarkTimeout(executions[i], now))

\* the deadline expired first: the invocation is cancelled
ExecTimeout(i) ==
  /\ Running(i)
  /\ \/ isolates[IsolateOf(i)].behaviour.kind = "hang"
     \/ /\ isolates[IsolateOf(i)].behaviour.kind \in {"return", "raise"}
        /\ isolates[IsolateOf(i)].behaviour.after > MaxExecutionTime
  /\ Finish(i, MarkTimeout(executions[i], now))

\* ------------------------ GET /workflows/{id}/executions/{execution_id}
FetchExecution_NotFoundOnMismatch ==
  /\ req.kind = "idle"
  /\ nreq < MaxRequests
  /\ \E wid \in 1..MaxWorkflows, eid \in 1..MaxExecutions :
       LET r == [endpoint |-> "get_execution", workflow_id |-> wid, execution_id |-> eid]
       IN resp' = IF GetExecution(execStore, eid) = 0 \/ executions[eid].workflow_id # wid
                  THEN RespondTo(r, 404, MsgExecutionNotFound, NoBody)
                  ELSE RespondTo(r, 200, None, executions[eid])
  /\ nreq' = nreq + 1
  /\ UNCHANGED <<variant, apiKey, debug, workflows, store, now, req, tvars, xvars>>

FetchExecution ==
  /\ req.kind = "idle"
  /\ nreq < MaxRequests
  /\ \E wid \in 1..MaxWorkflows, eid \in 1..MaxExecutions :
       LET r == [endpoint |-> "get_execution", workflow_id |-> wid, execution_id |-> eid]
       IN resp' = IF GetExecution(execStore, eid) = 0
                  THEN RespondTo(r, 404, MsgExecutionNotFound, NoBody)
                  ELSE IF executions[eid].workflow_id # wid
                       THEN RespondTo(r, 400, MsgNotOwner, NoBody)
                       ELSE RespondTo(r, 200, None, executions[eid])
  /\ nreq' = nreq + 1
  /\ UNCHANGED <<variant, apiKey, debug, workflows, store, now, req, tvars, xvars>>

\* ------------------------------------------------- GET /workflows/{id}
FetchWorkflow ==
  /\ req.kind = "idle"
  /\ nreq < MaxRequests
  /\ \E id \in 1..MaxWorkflows :
       LET r == [endpoint |-> "get_workflow", workflow_id |-> id, execution_id |-> 0]
       IN resp' = IF GetWorkflow(store, id) = 0
                  THEN RespondTo(r, 404, MsgWorkflowNotFound, NoBody)
                  ELSE RespondTo(r, 200, None, workflows[id])
  /\ nreq' = nreq + 1
  /\ UNCHANGED <<variant, apiKey, debug, workflows, store, now, req, tvars, xvars>>

Next ==
  \/ CreateNoApiKey
  \/ StartCreate
  \/ GenBegin
  \/ GenerateCode
  \/ GenValidate
  \/ GenExcept
  \/ CreateStore
  \/ CreateFail
  \/ RegenNoApiKey
  \/ RegenNotFound
  \/ StartRegen
  \/ RegenMissingMethod
  \/ RegenCallService
  \/ RegenValidate
  \/ RegenApply
  \/ RegenExcept
  \/ ExecuteRejected
  \/ ExecuteStart
  \/ ExecuteRun
  \/ \E i \in 1..MaxExecutions : ExecMutate(i)
  \/ \E i \in 1..MaxExecutions : ExecComplete(i)
  \/ \E i \in 1..MaxExecutions : ExecFail(i)
  \/ \E i \in 1..MaxExecutions : ExecTimeout(i)
  \/ FetchExecution
  \/ FetchWorkflow

Spec == Init /\ [][Next]_vars

\* a handler that has been entered runs on (the steps other than the call of
\* the generation service)
HandlerStep ==
  \/ GenBegin
  \/ GenValidate
  \/ GenExcept
  \/ CreateStore
  \/ CreateFail
  \/ RegenMissingMethod
  \/ RegenValidate
  \/ RegenApply
  \/ RegenExcept
  \/ ExecuteRun

\* the handler is inside messages.create
InServiceCall == req.pc \in {"generating", "regen_call"}

\* execution i's invocation returns or raises, or its deadline timer fires
ExecFinish(i) == ExecComplete(i) \/ ExecFail(i) \/ ExecTimeout(i)

\* The event loop runs every callback that is ready: a handler continues, and
\* a finished invocation or an expired timer resumes its execution. A call of
\* the generation service returns or raises.
FairHandlers == WF_<<req.pc>>(HandlerStep)
FairExecutions == \A i \in 1..MaxExecutions : WF_<<now>>(ExecFinish(i))
ServiceReturns == []<>~InServiceCall

\* the application after its first request, a successful POST /workflows
\* that the service answered with RespPlain
FirstInput == CHOOSE in \in CreateInputs : in.endpoint = "workflows"

CreatedWorkflow ==
  UpdateStatus([UpdateStatus(NewWorkflow(1, FirstInput.name, FirstInput.description,
                                         ContextOf(FirstInput), 0),
                             "generating", None, 1)
                  EXCEPT !.generated_code = CleanGeneratedCode(RespPlain)],
               "ready", None, 2)

InitExec ==
  /\ variant \in Variants
  /\ apiKey = TRUE
  /\ debug = FALSE
  /\ workflows = <<CreatedWorkflow>>
  /\ store = StoreWorkflow({}, 1)
  /\ now = 3
  /\ req = Idle
  /\ nreq = 1
  /\ resp = Respond(200, None, CreatedWorkflow)
  /\ executions = <<>>
  /\ execStore = {}
  /\ isolates = [i \in 1..MaxExecutions |-> NoIsolate]
  /\ text = <<>>
  /\ tres = [op |-> "none"]

\* the requests that follow: executions, fetches and regenerations
NextExec ==
  \/ ExecuteRejected
  \/ ExecuteStart
  \/ ExecuteRun
  \/ \E i \in 1..MaxExecutions : ExecMutate(i)
  \/ \E i \in 1..MaxExecutions : ExecComplete(i)
  \/ \E i \in 1..MaxExecutions : ExecFail(i)
  \/ \E i \in 1..MaxExecutions : ExecTimeout(i)
  \/ FetchExecution
  \/ FetchWorkflow
  \/ StartRegen
  \/ RegenMissingMethod
  \/ RegenCallService
  \/ RegenValidate
  \/ RegenApply
  \/ RegenExcept

SpecLive == InitExec /\ [][NextExec]_vars /\ FairHandlers /\ FairExecutions /\ ServiceReturns

\* ------------------------------------------------ the text functions alone
InitText ==
  /\ variant = "app"
  /\ apiKey = TRUE
  /\ debug = FALSE
  /\ workflows = <<>>
  /\ store = {}
  /\ now = 0
  /\ req = Idle
  /\ nreq = 0
  /\ resp = NoResponse
  /\ executions = <<>>
  /\ execStore = {}
  /\ isolates = [i \in 1..MaxExecutions |-> NoIsolate]
  /\ text \in Texts
  /\ tres = [op |-> "none"]

\* _validate_code(text)
Validate ==
  /\ tres.op = "none"
  /\ tres' = [op |-> "validate", valid |-> ValidateCode(text).valid,
              error |-> ValidateCode(text).error]
  /\ UNCHANGED <<text, mvars, xvars>>

\* _clean_generated_code(text)
Clean ==
  /\ tres.op = "none"
  /\ tres' = [op |-> "clean", code |-> CleanGeneratedCode(text)]
  /\ UNCHANGED <<text, mvars, xvars>>

NextText == Validate \/ Clean

SpecText == InitText /\ [][NextText]_vars

\* ================================================================== claims
\* ------------------------------------------ WorkflowExecution on its own
\* One record and the operations of its class, applied with the arguments
\* their signatures admit, to a record that has been started.
MarkResults == {<<"r1">>, <<"r2">>}
MarkErrors == {<<"boom">>, MsgTimeout}
\* mark_failed's execution_time is Optional and defaults to None
MarkTimes == {0, MaxExecutionTime}

InitRecord ==
  /\ variant \in Variants
  /\ apiKey = TRUE
  /\ debug = FALSE
  /\ workflows = <<>>
  /\ store = {}
  /\ now = 1
  /\ req = Idle
  /\ nreq = 0
  /\ resp = NoResponse
  /\ executions = <<NewExecution(1, 1, "u1", 0)>>
  /\ execStore = {}
  /\ isolates = [i \in 1..MaxExecutions |-> NoIsolate]
  /\ text = <<>>
  /\ tres = [op |-> "none"]

RecordRun ==
  /\ executions[1].status = "pending"
  /\ executions' = [executions EXCEPT ![1] = MarkRunning(@)]
  /\ UNCHANGED <<mvars, tvars, execStore, isolates>>

RecordMarkCompleted ==
  /\ executions[1].status # "pending"
  /\ now <= MaxMarks
  /\ \E result \in MarkResults, execution_time \in MarkTimes :
       executions' = [executions EXCEPT ![1] = MarkCompleted(@, result, execution_time, now)]
  /\ now' = now + 1
  /\ UNCHANGED <<variant, apiKey, debug, workflows, store, req, nreq, resp, tvars, execStore, isolates>>

RecordMarkFailed ==
  /\ executions[1].status # "pending"
  /\ now <= MaxMarks
  /\ \E error \in MarkErrors, execution_time \in MarkTimes \cup {NoTime} :
       executions' = [executions EXCEPT ![1] = MarkFailed(@, error, execution_time, now)]
  /\ now' = now + 1
  /\ UNCHANGED <<variant, apiKey, debug, workflows, store, req, nreq, resp, tvars, execStore, isolates>>

NextRecord ==
  \/ RecordRun
  \/ RecordMarkCompleted
  \/ RecordMarkFailed

SpecRecord == InitRecord /\ [][NextRecord]_vars

WorkflowIds == 1..Len(workflows)

\* the running handler is inside generate_workflow on workflow i
Generating(i) == req.kind = "create" /\ req.wid = i

\* the cleaned code the service's answer to the running request amounts to
OfferedCode == CleanGeneratedCode(req.svc.text)

\* C1: whenever a workflow's status is ready, its generated_code is a text
\* that the Validator accepts, after any sequence of create and regenerate
\* requests.
C1_ReadyCodeValidated ==
  \A i \in WorkflowIds :
    workflows[i].status = "ready" =>
      /\ workflows[i].generated_code # None
      /\ ValidateCode(workflows[i].generated_code).valid

\* a stored workflow made ready again by a regeneration
C1_Witness ==
  \E i \in store :
    /\ workflows[i].status = "ready"
    /\ workflows[i].updated_at > workflows[i].created_at + 2
    /\ resp.status = 200

\* C2: generated_code is non-empty when status is ready, executing or
\* completed, absent when status is created or generating, and a failed
\* workflow holds code only from a prior successful generation (it is stored).
C2_CodeIffStatus ==
  \A i \in WorkflowIds :
    LET w == workflows[i]
        hasCode == w.generated_code # None /\ w.generated_code # <<>>
    IN /\ w.status \in {"ready", "executing", "completed"} => hasCode
       /\ w.status \in {"created", "generating"} => ~hasCode
       /\ hasCode => w.status \in {"ready", "executing", "completed", "failed"}
       /\ (w.status = "failed" /\ hasCode) => i \in store

\* a failed workflow that still holds the code of its earlier generation
C2_Witness ==
  \E i \in WorkflowIds :
    /\ workflows[i].status = "failed"
    /\ workflows[i].generated_code # None
    /\ ValidateCode(workflows[i].generated_code).valid

\* the text declares "async def execute_workflow(user_input: str) -> str"
DeclaresAsyncEntryPoint(code) ==
  \E i \in 1..(Len(code) - 1) : code[i] = "async" /\ code[i + 1] = "def1"

\* C3: every text the Validator accepts parses, declares an asynchronous
\* execute_workflow taking one text argument and returning text, and contains
\* both required imports; every text missing one of these is rejected with a
\* reason naming the property.
C3_ValidatorSoundAndComplete ==
  tres.op = "validate" =>
    LET parses == Compile(text) = "ok"
        declares == DeclaresAsyncEntryPoint(text)
        asyncio == Contains(text, <<"asyncio">>)
        aiohttp == Contains(text, <<"aiohttp">>)
    IN /\ tres.valid = (parses /\ declares /\ asyncio /\ aiohttp)
       /\ tres.error \in {ErrSyntax, ErrValidation} => ~parses
       /\ tres.error \in {ErrMissingFunction, ErrNotAsync} => ~declares
       /\ tres.error = ErrMissingAsyncio => ~asyncio
       /\ tres.error = ErrMissingAiohttp => ~aiohttp

\* C4: the Validator reports the reason of the earliest failing check in the
\* order syntax, entry point present, entry point asynchronous, import
\* asyncio, import aiohttp.
C4_EarliestFailureReported ==
  tres.op = "validate" =>
    LET parses == Compile(text) = "ok"
        entry == HasEntryPoint(text)
        async == HasAsyncEntryPoint(text)
        asyncio == Contains(text, <<"asyncio">>)
        aiohttp == Contains(text, <<"aiohttp">>)
    IN /\ ~parses => tres.error \in {ErrSyntax, ErrValidation}
       /\ (parses /\ ~entry) => tres.error = ErrMissingFunction
       /\ (parses /\ entry /\ ~async) => tres.error = ErrNotAsync
       /\ (parses /\ entry /\ async /\ ~asyncio) => tres.error = ErrMissingAsyncio
       /\ (parses /\ entry /\ async /\ asyncio /\ ~aiohttp) => tres.error = ErrMissingAiohttp
       /\ tres.valid = (parses /\ entry /\ async /\ asyncio /\ aiohttp)

\* a text that lacks both imports and whose entry point is not asynchronous
C4_Witness ==
  /\ tres.op = "validate"
  /\ tres.error = ErrNotAsync
  /\ ~Contains(text, <<"asyncio">>)
  /\ ~Contains(text, <<"aiohttp">>)

\* C5: during generate_workflow the status moves only created -> generating
\* -> ready or failed; the call ends returning a ready workflow or raising
\* with a failed one, and no workflow is left created or generating.
C5_GenerateStatusPath ==
  /\ [][\A i \in WorkflowIds :
          (Generating(i) /\ workflows'[i].status # workflows[i].status) =>
            <<workflows[i].status, workflows'[i].status>> \in
              {<<"created", "generating">>, <<"generating", "ready">>,
               <<"generating", "failed">>}]_vars
  /\ [](\A i \in WorkflowIds :
          /\ (Generating(i) /\ req.pc = "constructed") => workflows[i].status = "created"
          /\ (Generating(i) /\ req.pc = "returned") => workflows[i].status = "ready"
          /\ (Generating(i) /\ req.pc = "raised") => workflows[i].status = "failed"
          /\ ~Generating(i) => workflows[i].status \notin {"created", "generating"})

\* generate_workflow has raised and its workflow is failed
C5_Witness ==
  /\ req.kind = "create"
  /\ req.pc = "raised"
  /\ ReqWorkflow.status = "failed"
  /\ ReqWorkflow.updated_at = ReqWorkflow.created_at + 2

\* C6: when generate_workflow fails (service failure or Validator rejection)
\* the workflow has status failed, error equal to the failure message, and no
\* generated_code.
C6_FailedGenerationHasNoCode ==
  /\ (req.kind = "create" /\ req.pc = "raised") =>
       /\ ReqWorkflow.status = "failed"
       /\ ReqWorkflow.error = req.exc
       /\ ReqWorkflow.generated_code = None
       /\ req.exc = IF req.svc.ok
                    THEN MsgGeneratedInvalid \o ValidateCode(OfferedCode).error
                    ELSE MsgGenerationFailed \o req.svc.msg
  /\ \A i \in WorkflowIds :
       (~Generating(i) /\ i \notin store) =>
         /\ workflows[i].status = "failed"
         /\ workflows[i].error # None
         /\ workflows[i].generated_code = None

\* generate_workflow has raised because the Validator rejected the code
C6_Witness ==
  /\ req.kind = "create"
  /\ req.pc = "raised"
  /\ req.svc.ok
  /\ req.code # None
  /\ ~ValidateCode(req.code).valid

\* C7: each call of generate_workflow and of regenerate_with_feedback invokes
\* the generation service exactly once, whatever the outcome.
C7_OneServiceCall ==
  /\ req.calls <= 1
  /\ (req.kind = "create" /\ req.pc \in {"validating", "except", "returned", "raised"}) =>
       req.calls = 1
  /\ (req.kind = "regen" /\ variant = "app"
        /\ req.pc \in {"regen_validating", "regen_returned", "regen_except"}) =>
       req.calls = 1

\* regenerate_with_feedback has raised on a service failure
C7_Witness ==
  /\ req.kind = "regen"
  /\ req.pc = "regen_except"
  /\ variant = "app"
  /\ ~req.svc.ok
  /\ req.calls = 1

\* C8: the steps of regenerate_with_feedback leave the workflow unchanged;
\* during a regenerate request the workflow changes only in the handler's
\* final step, which applies the code and sets ready, or sets failed.
C8_RegenerateLeavesWorkflow ==
  [][req.kind = "regen" =>
       /\ req.pc \in {"regen_call", "regen_validating"} => workflows' = workflows
       /\ workflows' # workflows =>
            /\ req'.kind = "idle"
            /\ \/ /\ req.pc = "regen_returned"
                  /\ workflows'[req.wid].status = "ready"
                  /\ workflows'[req.wid].generated_code = req.code
               \/ /\ req.pc = "regen_except"
                  /\ workflows'[req.wid].status = "failed"
                  /\ workflows'[req.wid].generated_code = workflows[req.wid].generated_code]_vars

\* regenerate_with_feedback has returned new code; the workflow still holds the old
C8_Witness ==
  /\ req.kind = "regen"
  /\ req.pc = "regen_returned"
  /\ ReqWorkflow.generated_code # req.code
  /\ ReqWorkflow.status = "failed"

\* C9: in both variants, a regenerate request on a stored workflow for which
\* the service returns code the Validator accepts ends with the workflow
\* ready and generated_code equal to the new code.
C9_RegenerateAppliesValidCode ==
  [][(/\ req.kind = "regen"
      /\ req.svc.ok
      /\ ValidateCode(OfferedCode).valid
      /\ req'.kind = "idle") =>
       /\ workflows'[req.wid].status = "ready"
       /\ workflows'[req.wid].generated_code = OfferedCode]_vars

\* C10: status = ready implies error is unset, also after a failed
\* regeneration followed by a successful one.
C10_ReadyHasNoError ==
  \A i \in WorkflowIds : workflows[i].status = "ready" => workflows[i].error = None

\* C11: a WorkflowExecution's status moves only along pending -> running ->
\* completed | failed | timeout, and once it is terminal no later operation on
\* the record changes its status, result or error.
C11_ExecutionStatusPath ==
  [][\A i \in 1..Len(executions) :
       LET e == executions[i]
           f == executions'[i]
       IN /\ e.status = "pending" => f.status \in {"pending", "running"}
          /\ e.status = "running" => f.status \in {"running"} \cup Terminal
          /\ e.status \in Terminal =>
               /\ f.status = e.status
               /\ f.result = e.result
               /\ f.error = e.error]_vars

\* C12: in every state of a WorkflowExecution whose status is terminal exactly
\* one of result and error is set, result iff completed and error iff failed
\* or timeout; completed_at is set iff the status is terminal.
C12_OneOfResultAndError ==
  \A i \in 1..Len(executions) :
    LET e == executions[i]
    IN /\ e.status \in Terminal =>
            /\ (e.result # None) <=> (e.status = "completed")
            /\ (e.error # None) <=> (e.status \in {"failed", "timeout"})
       /\ (e.completed_at # NoTime) <=> (e.status \in Terminal)

\* C13: no execution is in status completed, failed or timeout with
\* execution_time unset.
C13_TerminalHasExecutionTime ==
  \A i \in 1..Len(executions) :
    executions[i].status \in Terminal => executions[i].execution_time # NoTime

C15_ExecutionsTerminate ==
  \A i \in 1..MaxExecutions :
    (Len(executions) >= i /\ executions[i].status \in {"pending", "running"})
      ~> (Len(executions) >= i /\ executions[i].status \in Terminal)

C15_Witness ==
  /\ Len(executions) = MaxExecutions
  /\ \A i \in 1..Len(executions) : executions[i].status \in Terminal
  /\ \E i \in 1..Len(executions) : executions[i].status = "timeout"

\* C16: execute_workflow on an unknown workflow id, or on a workflow without
\* generated_code or not ready, fails before anything is run: no
\* WorkflowExecution is created, no code is loaded or invoked, and the workflow
\* is unchanged. Stated both ways: a rejected execute request changes nothing,
\* and every record that is created or started belongs to a stored, ready
\* workflow that has code.
ExecuteIsRejected ==
  /\ nreq' = nreq + 1
  /\ req' = req
  /\ resp'.request.endpoint = "execute"
  /\ resp'.status = 400

Executable(id) ==
  /\ id \in store
  /\ workflows[id].generated_code # None
  /\ workflows[id].status = "ready"

C16_RejectedBeforeRunning ==
  [][/\ ExecuteIsRejected =>
          /\ ~Executable(resp'.request.workflow_id)
          /\ executions' = executions
          /\ execStore' = execStore
          /\ isolates' = isolates
          /\ workflows' = workflows
          /\ store' = store
     /\ Len(executions') > Len(executions) =>
          Executable(executions'[Len(executions')].workflow_id)
     /\ \A i \in 1..Len(executions) :
          (executions[i].status = "pending" /\ executions'[i].status = "running") =>
            /\ Executable(executions[i].workflow_id)
            /\ isolates'[IsolateOf(i)].code = workflows[executions[i].workflow_id].generated_code
     /\ \A j \in 1..MaxExecutions :
          isolates'[j].code # isolates[j].code /\ isolates'[j].code # None =>
            /\ j <= Len(executions)
            /\ executions[j].status = "pending"]_vars

C16_Witness ==
  /\ resp.request.endpoint = "execute"
  /\ resp.status = 400
  /\ resp.request.workflow_id \in store
  /\ workflows[resp.request.workflow_id].generated_code # None
  /\ workflows[resp.request.workflow_id].status = "failed"
  /\ executions = <<>>

\* C17: two executions of the same workflow that run concurrently never
\* observe each other's bindings: the result of a completed execution is the
\* one its own user_input and attached_file_ids give, whatever the other
\* execution was given or assigned.
AttachedOf(user_input) ==
  (CHOOSE in \in ExecInputs : in.user_input = user_input).attached_file_ids

C17_ExecutionsIsolated ==
  \A i \in 1..Len(executions) :
    executions[i].status = "completed" =>
      executions[i].result =
        <<"result for", executions[i].user_input>> \o AttachedOf(executions[i].user_input)

\* both executions of one workflow ran at the same time with different
\* inputs and both completed
C17_Witness ==
  /\ Len(executions) = 2
  /\ executions[1].workflow_id = executions[2].workflow_id
  /\ executions[1].user_input # executions[2].user_input
  /\ executions[1].status = "completed"
  /\ executions[2].status = "completed"
  /\ executions[2].created_at < executions[1].completed_at
  /\ executions[1].created_at < executions[2].completed_at

\* C18: fetching an execution that exists with a workflow_id other than its
\* own fails with 400 and never with 404; 404 is returned only when no
\* execution with that id exists, and the execution's data only when the
\* workflow_id matches.
ExecutionIsFetched ==
  /\ nreq' = nreq + 1
  /\ req' = req
  /\ resp'.request.endpoint = "get_execution"

C18_FetchExecutionAnswers ==
  [][ExecutionIsFetched =>
       LET wid == resp'.request.workflow_id
           eid == resp'.request.execution_id
           exists == eid \in execStore
           owner == exists /\ executions[eid].workflow_id = wid
       IN /\ resp'.status \in {200, 400, 404}
          /\ (resp'.status = 404) <=> ~exists
          /\ (resp'.status = 400) <=> (exists /\ ~owner)
          /\ (resp'.status = 200) <=> owner
          /\ resp'.body = IF owner THEN executions[eid] ELSE NoBody]_vars

C18_Witness ==
  /\ resp.request.endpoint = "get_execution"
  /\ resp.status = 400
  /\ resp.request.execution_id \in execStore
  /\ executions[resp.request.execution_id].workflow_id # resp.request.workflow_id

\* C19: while a request is waiting for the generation service, unrelated
\* requests (fetching a workflow, starting another generation) can still be
\* served, and a running execution can still finish: the call does not block
\* the event loop.
C19_ServiceCallDoesNotBlock ==
  (InServiceCall /\ nreq < MaxRequests) =>
    /\ ENABLED FetchWorkflow
    /\ Len(workflows) < MaxWorkflows => ENABLED StartCreate
    /\ \A i \in 1..Len(executions) :
         executions[i].status = "running" => ENABLED ExecFinish(i)

\* C20: the status transitions of one workflow are serialized. No request is
\* admitted while a handler is in flight, so two regenerate requests on one
\* workflow run one after the other; a workflow is written only by the handler
\* working on it; a regenerate request writes its workflow once, at its end,
\* the code together with the status ready or the status failed with the code
\* left alone, computed from the state the previous request left; and a reader
\* is served only between two handlers and sees the workflow as it is then.
WorkflowIsFetched ==
  /\ nreq' = nreq + 1
  /\ req' = req
  /\ resp'.request.endpoint = "get_workflow"

C20_WorkflowWritesSerialized ==
  [][/\ req.kind # "idle" =>
          /\ nreq' = nreq
          /\ req'.kind = "idle" \/ (req'.kind = req.kind /\ req'.wid = req.wid)
     /\ \A i \in 1..Len(workflows) :
          workflows'[i] # workflows[i] => (req.kind \in {"create", "regen"} /\ req.wid = i)
     /\ (req.kind = "regen" /\ workflows' # workflows) =>
          LET w == workflows[req.wid]
              v == workflows'[req.wid]
          IN /\ req'.kind = "idle"
             /\ \/ v = [w EXCEPT !.generated_code = req.code, !.status = "ready",
                                 !.updated_at = now]
                \/ \E e \in {w.error, req.exc} :
                     v = [w EXCEPT !.status = "failed", !.error = e, !.updated_at = now]
     /\ WorkflowIsFetched =>
          /\ req.kind = "idle"
          /\ resp'.status = 200 => resp'.body = workflows[resp'.request.workflow_id]]_vars

\* a second regenerate request on the same workflow has ended (here in
\* failure, after a first one that ended at an earlier time)
C20_Witness ==
  /\ nreq = 3
  /\ req.kind = "idle"
  /\ Len(workflows) = 1
  /\ workflows[1].status = "failed"
  /\ workflows[1].generated_code # None
  /\ workflows[1].updated_at >= 4
  /\ resp.status = 500

\* a WorkflowExecution as a reader may see it: no field of a terminal
\* transition is visible before the whole transition is
WholeTransition(e) ==
  /\ e.status \in {"pending", "running"} => (e.result = None /\ e.error = None)
  /\ e.status \in Terminal => (e.execution_time # NoTime /\ e.completed_at # NoTime)

\* C21: no reader of a WorkflowExecution observes a partially applied terminal
\* transition: in no state between two operations, and in no response that
\* carries an execution, is result or error set while the status is pending
\* or running, or the status terminal while execution_time or completed_at is
\* unset.
C21_NoPartialTerminal ==
  /\ \A i \in 1..Len(executions) : WholeTransition(executions[i])
  /\ (resp.status = 200 /\ resp.request.endpoint \in {"execute", "get_execution"}) =>
       WholeTransition(resp.body)

\* the reasons with which _validate_code rejects a text
RejectionReasons ==
  {ErrSyntax, ErrValidation, ErrMissingFunction, ErrNotAsync, ErrMissingAsyncio,
   ErrMissingAiohttp}

\* msg ends with the text part
EndsWith(msg, part) ==
  /\ Len(msg) >= Len(part)
  /\ SubSeq(msg, Len(msg) - Len(part) + 1, Len(msg)) = part

\* msg carries the Validator's reason, whole, and the reason of no other kind
CarriesReason(msg, reason) ==
  /\ reason \in RejectionReasons
  /\ \A r \in RejectionReasons : EndsWith(msg, r) <=> (r = reason)

\* C22: when generation or regeneration fails because the Validator rejected
\* the code, the message recorded on the workflow and the message raised to
\* the caller both carry the Validator's reason unchanged, so rejections of
\* different kinds give different messages.
C22_RejectionReasonPreserved ==
  [][/\ (req.kind = "create" /\ req.pc = "raised" /\ req.svc.ok /\ req'.kind = "idle") =>
          LET reason == ValidateCode(req.code).error
          IN /\ workflows'[req.wid].status = "failed"
             /\ workflows'[req.wid].error = MsgGeneratedInvalid \o reason
             /\ CarriesReason(workflows'[req.wid].error, reason)
             /\ resp'.status = 500
             /\ CarriesReason(resp'.detail, reason)
     /\ (req.kind = "regen" /\ req.pc = "regen_except" /\ req.code # None
           /\ req'.kind = "idle") =>
          LET reason == ValidateCode(req.code).error
          IN /\ workflows'[req.wid].status = "failed"
             /\ workflows'[req.wid].error = MsgImprovedInvalid \o reason
             /\ CarriesReason(workflows'[req.wid].error, reason)
             /\ resp'.status = 500
             /\ CarriesReason(resp'.detail, reason)]_vars

\* a creation was refused for a missing entry point, after an earlier one
\* was refused for a syntax error
C22_Witness ==
  /\ req.kind = "idle"
  /\ Len(workflows) = 2
  /\ workflows[1].error = MsgGeneratedInvalid \o ErrSyntax
  /\ workflows[2].error = MsgGeneratedInvalid \o ErrMissingFunction
  /\ resp.status = 500
  /\ EndsWith(resp.detail, ErrMissingFunction)

\* the running handler caught an exception that is a defect of the program,
\* none of the failures its design names: the AttributeError of the method
\* the api variant's generator lacks
InternalFailure == req.kind # "idle" /\ req.exc = MsgNoAttribute

\* C23: with debug mode off, the response to a request that hit an internal
\* or unexpected failure does not contain the message of the underlying
\* exception; the message is in a response only when debug mode is on.
C23_FailureDetailSuppressed ==
  [][(InternalFailure /\ req'.kind = "idle" /\ resp'.status = 500) =>
       (Contains(resp'.detail, req.exc) => debug)]_vars

\* C24: every operation on an existing workflow (status update, successful or
\* failed regeneration, fetch) leaves its id, description, name, context and
\* created_at unchanged.
C24_IdentityFieldsImmutable ==
  [][\A i \in 1..Len(workflows) :
       /\ workflows'[i].id = workflows[i].id
       /\ workflows'[i].description = workflows[i].description
       /\ workflows'[i].name = workflows[i].name
       /\ workflows'[i].context = workflows[i].context
       /\ workflows'[i].created_at = workflows[i].created_at]_vars

\* the workflow made with files has been regenerated with failure and then
\* with success, and is returned with the fields it was created with
C24_Witness ==
  \E i \in store :
    /\ workflows[i].status = "ready"
    /\ workflows[i].error # None
    /\ workflows[i].id = i
    /\ workflows[i].name = <<"n1">>
    /\ workflows[i].description = "d2"
    /\ workflows[i].context # None
    /\ workflows[i].updated_at > workflows[i].created_at + 3
    /\ resp.status = 200
    /\ resp.body = workflows[i]

\* C25: for every model response, cleaned code that contains
\* 'def execute_workflow(' contains 'async def execute_workflow(', so the
\* Validator, run on cleaned code as the generate and regenerate pipelines
\* do, never answers 'execute_workflow must be async'.
C25_CleaningMakesAsync ==
  tres.op = "clean" =>
    /\ HasEntryPoint(tres.code) => HasAsyncEntryPoint(tres.code)
    /\ ValidateCode(tres.code).error # ErrNotAsync

\* a fenced response whose entry point was not asynchronous
C25_Witness ==
  /\ tres.op = "clean"
  /\ Contains(text, Fence)
  /\ HasEntryPoint(text)
  /\ ~HasAsyncEntryPoint(text)
  /\ HasAsyncEntryPoint(tres.code)
  /\ Compile(tres.code) = "ok"

\* C26: every workflow that can be fetched from the store was stored after a
\* successful generation: its status is ready or failed, never created or
\* generating, and it holds code the Validator accepts; a workflow whose
\* initial generation failed is never stored, and fetching its id answers 404.
C26_StoredAfterSuccess ==
  /\ [](\A i \in store :
          /\ i \in WorkflowIds
          /\ workflows[i].status \in {"ready", "failed"}
          /\ workflows[i].generated_code # None
          /\ ValidateCode(workflows[i].generated_code).valid)
  /\ [](\A i \in WorkflowIds :
          (workflows[i].generated_code = None /\ workflows[i].status = "failed") =>
            i \notin store)
  /\ [][WorkflowIsFetched =>
          LET id == resp'.request.workflow_id
          IN /\ (resp'.status = 200) <=> (id \in store)
             /\ (resp'.status = 404) <=> (id \notin store)]_vars

\* the id of a workflow whose generation failed was fetched: not found
C26_Witness ==
  /\ resp.request.endpoint = "get_workflow"
  /\ resp.status = 404
  /\ resp.request.workflow_id \in WorkflowIds
  /\ workflows[resp.request.workflow_id].status = "failed"
  /\ \E i \in store : workflows[i].status = "ready"

\* the regenerate handler ends in its except clause
RegenerationFails ==
  /\ req.kind = "regen"
  /\ req.pc = "regen_except"
  /\ req'.kind = "idle"

\* C27: a failed regeneration (service failure or Validator rejection) leaves
\* the workflow's generated_code as it was before the request, sets the status
\* failed and records the failure message; the rejected candidate code is not
\* stored in the workflow.
C27_FailedRegenKeepsCode ==
  [][RegenerationFails =>
       LET w == workflows[req.wid]
           v == workflows'[req.wid]
       IN /\ v.generated_code = w.generated_code
          /\ req.code # None => v.generated_code # req.code
          /\ v.status = "failed"
          /\ v.error = req.exc
          /\ resp'.status = 500]_vars

\* C28: whenever a workflow's status is failed its error is set, and every
\* transition to failed leaves in error the message of the failure that
\* caused it, never nothing and never the message of an earlier failure.
C28_FailedHasLatestError ==
  /\ [](\A i \in WorkflowIds : workflows[i].status = "failed" => workflows[i].error # None)
  /\ [][\A i \in WorkflowIds :
          (workflows'[i].status = "failed" /\ workflows'[i].updated_at # workflows[i].updated_at)
            => workflows'[i].error = req.exc]_vars

\* C29: cleaning is idempotent: for every response text, cleaning the cleaned
\* code again returns it unchanged; the cleaned code contains no fence marker
\* and has no leading or trailing whitespace.
C29_CleaningIdempotent ==
  tres.op = "clean" =>
    /\ CleanGeneratedCode(tres.code) = tres.code
    /\ ~Contains(tres.code, Fence)
    /\ tres.code # <<>> => (Head(tres.code) # "ws" /\ tres.code[Len(tres.code)] # "ws")

\* a response with a fence and whitespace at its end was cleaned to
\* something shorter
C29_Witness ==
  /\ tres.op = "clean"
  /\ Contains(text, Fence)
  /\ text[Len(text)] = "ws"
  /\ tres.code # <<>>
  /\ Len(tres.code) < Len(text) - 1

\* C30: the Validator is total and never raises: for every text it returns a
\* result in which valid is true exactly when error is absent, and a failure
\* of the syntax check, also one that is no syntax error, comes back as a
\* rejection with a reason.
C30_ValidatorTotal ==
  /\ tres.op = "none" => ENABLED Validate
  /\ tres.op = "validate" =>
       /\ tres.valid \in BOOLEAN
       /\ tres.valid <=> (tres.error = None)
       /\ Compile(text) # "ok" => (~tres.valid /\ tres.error \in {ErrSyntax, ErrValidation})
       /\ Compile(text) \notin {"ok", "SyntaxError"} => tres.error = ErrValidation

\* compile raised an exception that is no SyntaxError, and the text was
\* rejected for it
C30_Witness ==
  /\ tres.op = "validate"
  /\ Compile(text) = "UnicodeEncodeError"
  /\ ~tres.valid
  /\ tres.error = ErrValidation

====
